---- MODULE Spec2Model ----
(***************************************************************************)
(* Model of utils/opcode-timing.cpp: the differential opcode timing tool.  *)
(*                                                                         *)
(* One process, one thread.  pc is the position of that thread:            *)
(*   "start"      main() entered, nothing printed yet                      *)
(*   "prepare"    header printed, about to call prepare_stack              *)
(*   "avg_init"   prepare_stack returned, about to enter averageRuntime    *)
(*   "loop"       at the head of the sampling loop (the test i < samples)  *)
(*   "empty_done" the baseline call of line 108 has returned               *)
(*   "code_done"  the measured call of line 109 has returned               *)
(*   "check"      the sample was pushed and totalled (lines 110-113)       *)
(*   "aggregate"  the loop was left, the statistics are not yet computed   *)
(*   "report"     averageRuntime returned, the data line is not printed    *)
(*   "exited"     main returned                                            *)
(*   "aborted"    the process was killed by CHECK / LOG(FATAL)             *)
(*                                                                         *)
(* The VM, the clock and the timer are inputs: every call draws its        *)
(* outcome from a small set.  Runtimes are whole clock ticks, elapsed time *)
(* is in whole seconds, and the long double arithmetic of the statistics   *)
(* is modelled by exact rationals (rounding is not modelled).              *)
(*                                                                         *)
(* The source samples up to 100000 times with a floor of 20; the model     *)
(* keeps the same loop with the scaled-down numbers Samples and            *)
(* MinSamples (MinSamples < Samples, as 20 < 100000).                      *)
(***************************************************************************)
EXTENDS Integers, Sequences, FiniteSets, TLC

VARIABLES
  pc,          \* position of the single thread
  argv,        \* the positional arguments (argv[1..argc-1]), each a token
  setup,       \* main's std::string setup
  code,        \* main's std::string code
  stack,       \* the stack snapshot returned by prepare_stack
  samples,     \* averageRuntime's size_t samples
  i,           \* the loop counter
  values,      \* std::vector<runInfo> values
  total,       \* runInfo total
  elapsed,     \* the last reading of t0.elapsed(), 0 before the first one
  value_empty, \* result of the baseline call of the current iteration
  value_code,  \* result of the measured call of the current iteration
  result,      \* the runtimeStats returned by averageRuntime
  out,         \* lines written to standard output
  err,         \* lines written to standard error
  exitCode,    \* the value main returned, -1 while it has not
  fatal,       \* why the process was killed: "none", "decode", "check_ret", "fault"
  threw,       \* history: a VM run has thrown
  stack0,      \* history: the stack prepare_stack returned
  calls,       \* history: the time_run_vm calls of the current iteration
  nEmpty,      \* history: number of completed VM runs made by line 108
  nCode,       \* history: number of completed VM runs made by line 109
  nSetup,      \* history: number of completed VM runs made by prepare_stack
  overSince    \* history: i + 1 at the first reading above the budget, 0 if none

vars == << pc, argv, setup, code, stack, samples, i, values, total, elapsed,
           value_empty, value_code, result, out, err, exitCode, fatal, threw,
           stack0, calls, nEmpty, nCode, nSetup, overSince >>

(***************************************************************************)
(* Bounds and program constants                                            *)
(***************************************************************************)
\* size_t samples = 100000, scaled down
Samples == 3
\* the floor of "i + 1 >= 20", scaled down
MinSamples == 2
\* the budget of "t0.elapsed() > 2.0"
TimeBudget == 2

\* readings of t0.elapsed(): at the budget (not above it) and above it
ElapsedReadings == {TimeBudget, TimeBudget + 1}
\* cEnd - cStart in ticks; clock() may step backwards
ClockDeltas == {-1, 1}
\* what one VM run reports: the value of vm.run() and vm.gas_consumed().
\* vm.run() returns the complement of the exit code: -1 is exit code 0,
\* -3 is exit code 2 (stack underflow).
VmOutcomes == { [res |-> -1, gas |-> 1], [res |-> -3, gas |-> 2] }
\* stacks the VM may leave behind
Stacks == { <<>>, <<1>> }

(***************************************************************************)
(* Tokens are sequences of characters                                      *)
(***************************************************************************)
HexDigits == {"0", "1", "2", "3", "4", "5", "6", "7", "8", "9",
              "A", "B", "C", "D", "E", "F"}
TokEmpty  == <<>>
TokHex    == <<"A", "9">>
TokBadHex == <<"Z", "Z">>
TokBoc    == <<"b", "o", "c", ":", "t", "e">>
TokBadBoc == <<"b", "o", "c", ":", "!">>
BocPrefix == <<"b", "o", "c", ":">>
\* base64 payloads that decode to a well-formed bag of cells
GoodBocPayloads == { <<"t", "e">> }

\* the command lines tried: 0, 1, 2 and 3 positional arguments
ArgLists == { <<>>,
              <<TokHex>>, <<TokBadHex>>, <<TokBadBoc>>,
              <<TokBoc, TokHex>>,
              <<TokBadHex, TokHex>>, <<TokHex, TokBadHex>>, <<TokEmpty, TokBadBoc>>,
              <<TokEmpty, TokHex, TokHex>> }

HeaderLine == "OPCODE,runtime mean,runtime stddev,gas mean,gas stddev,error"
UsageText  == "usage"

(***************************************************************************)
(* Exact rationals <<n, d>> with d > 0, in lowest terms                    *)
(***************************************************************************)
Abs(x) == IF x < 0 THEN -x ELSE x

RECURSIVE Gcd(_, _)
Gcd(a, b) == IF b = 0 THEN a ELSE Gcd(b, a % b)

Rat(n, d) ==
  LET s == IF d < 0 THEN -1 ELSE 1
      g == Gcd(Abs(n), Abs(d))
  IN  << (s * n) \div g, (s * d) \div g >>

RatInt(n)    == << n, 1 >>
RatAdd(p, q) == Rat(p[1] * q[2] + q[1] * p[2], p[2] * q[2])
RatSub(p, q) == Rat(p[1] * q[2] - q[1] * p[2], p[2] * q[2])
RatMul(p, q) == Rat(p[1] * q[1], p[2] * q[2])
RatDiv(p, q) == Rat(p[1] * q[2], p[2] * q[1])

\* sqrtl(q), kept symbolic: the non-negative root of q, NaN when q < 0
Sqrtl(q) == [sqrtOf |-> q]

(***************************************************************************)
(* to_cell                                                                 *)
(***************************************************************************)
\* td::bitstring::parse_bitstring_hex_literal: the number of bits, or a
\* negative number when a character is no hex digit
ParseBitstringHexLiteral(s) ==
  IF \A k \in 1..Len(s) : s[k] \in HexDigits THEN 4 * Len(s) ELSE -1

\* td::base64_decode + vm::std_boc_deserialize: whether both give a value
BocDecodes(payload) == payload \in GoodBocPayloads

\* to_cell: TRUE when it returns a cell, FALSE when move_as_ok() or
\* CHECK(bits >= 0) kills the process
ToCellOk(s) ==
  IF Len(s) >= 4 /\ SubSeq(s, 1, 4) = BocPrefix
    THEN BocDecodes(SubSeq(s, 5, Len(s)))
    ELSE ParseBitstringHexLiteral(s) >= 0

(***************************************************************************)
(* runInfo                                                                 *)
(***************************************************************************)
RunInfo(rt, gas, rc) == [runtime |-> rt, gasUsage |-> gas, vmReturnCode |-> rc]

\* runInfo()
RunInfoDefault == RunInfo(0, 0, 0)

\* runInfo::operator+=
PlusAssign(t, addend) ==
  RunInfo(t.runtime + addend.runtime,
          t.gasUsage + addend.gasUsage,
          IF t.vmReturnCode = 0 /\ addend.vmReturnCode # 0
            THEN addend.vmReturnCode ELSE t.vmReturnCode)

\* runInfo::errored
Errored(v) == v.vmReturnCode # 0

\* the ~ of "int ret = ~vm.run()"
Complement(x) == -x - 1

\* "time >= 0 ? time : 0"
FlooredTime(time) == IF time >= 0 THEN time ELSE 0

(***************************************************************************)
(* The pieces of the code that the actions below are built from            *)
(***************************************************************************)
\* line 107: the loop test
LoopCond_OffByOne(ii, n) == ii <= n
LoopCond(ii, n) == ii < n

\* line 114: the early-stop test, el being the reading of t0.elapsed()
StopNow_NoFloor(el, ii) == el > TimeBudget
StopNow(el, ii) == el > TimeBudget /\ ii + 1 >= MinSamples

\* line 115: the new value of samples on the early stop
StoppedSamples(ii, n) == ii + 1

\* lines 133-134: the divisor of the sums of squares, n being samples
VarianceDivisor_Bessel(n) == n - 1
VarianceDivisor(n) == n

\* line 116: values.resize(n)
Resize(v, n) ==
  IF n <= Len(v) THEN SubSeq(v, 1, n)
  ELSE v \o [k \in 1..(n - Len(v)) |-> RunInfoDefault]

\* lines 110-111: the differential sample of one iteration
Differential_Clamped(vc, ve) ==
  RunInfo(IF vc.runtime - ve.runtime >= 0 THEN vc.runtime - ve.runtime ELSE 0,
          IF vc.gasUsage - ve.gasUsage >= 0 THEN vc.gasUsage - ve.gasUsage ELSE 0,
          vc.vmReturnCode)
Differential(vc, ve) ==
  RunInfo(vc.runtime - ve.runtime, vc.gasUsage - ve.gasUsage, vc.vmReturnCode)

\* line 130: one step of the fold that computes errored
ErroredStep_Last(errored, value) == Errored(value)
ErroredStep(errored, value) == errored \/ Errored(value)

\* lines 108-109: td::Ref<vm::Stack>(true, stack) hands the VM a copy, so
\* the snapshot is what it was whatever stack the VM ends with
SnapshotAfterRun_Shared(snapshot, vmFinal) == vmFinal
SnapshotAfterRun(snapshot, vmFinal) == snapshot

\* line 108: the command of the baseline call
BaselineCommand == <<>>

\* lines 72-74: prepare_stack goes on only when the setup run returned 0
PrepareAccepts(ret) == ret = 0

\* lines 91-94: time_run_vm returns whatever code the run ended with
TimeRunAccepts_Checked(ret) == ret = 0
TimeRunAccepts(ret) == TRUE

\* lines 95-98: LOG(FATAL) in the catch block kills the process, the
\* return after it is never reached
CatchKills_Returns == FALSE
CatchKills == TRUE

\* line 176: (int)time.errored
ErrorField_Code(st) == IF st.errored THEN 2 ELSE 0
ErrorField(st) == IF st.errored THEN 1 ELSE 0

\* lines 175-176: the data line, field by field
DataLine(tok, st) ==
  [ opcode        |-> tok,
    runtimeMean   |-> st.runtime.mean,
    runtimeStddev |-> st.runtime.stddev,
    gasMean       |-> st.gasUsage.mean,
    gasStddev     |-> st.gasUsage.stddev,
    error         |-> ErrorField(st) ]

(***************************************************************************)
(* time_run_vm as a whole: what one call can come to.                      *)
(*   kind "decode"     to_cell killed the process                          *)
(*   kind "fault"      the VM threw and the catch block killed the process *)
(*   kind "check_ret"  a CHECK on the return code killed the process       *)
(*   kind "return"     the call returned value                             *)
(* threw tells whether vm.run() threw, ran whether it ran to its end.      *)
(***************************************************************************)
TimeRunVm(command) ==
  IF ~ToCellOk(command)
    THEN { [kind |-> "decode", value |-> RunInfoDefault, threw |-> FALSE,
            ran |-> FALSE] }
    ELSE
      { IF CatchKills
          THEN [kind |-> "fault", value |-> RunInfoDefault, threw |-> TRUE,
                ran |-> FALSE]
          ELSE [kind |-> "return", value |-> RunInfo(-1, -1, 1), threw |-> TRUE,
                ran |-> FALSE] }
      \cup
      { IF TimeRunAccepts(Complement(o.res))
          THEN [kind |-> "return",
                value |-> RunInfo(FlooredTime(d), o.gas, Complement(o.res)),
                threw |-> FALSE, ran |-> TRUE]
          ELSE [kind |-> "check_ret", value |-> RunInfoDefault, threw |-> FALSE,
                ran |-> TRUE]
        : o \in VmOutcomes, d \in ClockDeltas }

(***************************************************************************)
(* averageRuntime, lines 120-136                                           *)
(***************************************************************************)
RatZero == RatInt(0)
NoStats == [ runtime  |-> [mean |-> RatZero, stddev |-> Sqrtl(RatZero)],
             gasUsage |-> [mean |-> RatZero, stddev |-> Sqrtl(RatZero)],
             errored  |-> FALSE ]

\* the loop of lines 125-131 over values[k..], from the accumulators acc
RECURSIVE SecondPass(_, _, _, _, _)
SecondPass(v, k, runtimeMean, gasMean, acc) ==
  IF k > Len(v) THEN acc
  ELSE
    LET runtime  == RatSub(RatInt(v[k].runtime), runtimeMean)
        gasUsage == RatSub(RatInt(v[k].gasUsage), gasMean)
    IN  SecondPass(v, k + 1, runtimeMean, gasMean,
          [ runtimeDiffSum |-> RatAdd(acc.runtimeDiffSum, RatMul(runtime, runtime)),
            gasDiffSum     |-> RatAdd(acc.gasDiffSum, RatMul(gasUsage, gasUsage)),
            errored        |-> ErroredStep(acc.errored, v[k]) ])

Aggregated(v, t, n) ==
  LET runtimeMean == RatDiv(RatInt(t.runtime), RatInt(n))
      gasMean     == RatDiv(RatInt(t.gasUsage), RatInt(n))
      acc == SecondPass(v, 1, runtimeMean, gasMean,
               [runtimeDiffSum |-> RatZero, gasDiffSum |-> RatZero, errored |-> FALSE])
  IN  [ runtime  |-> [mean |-> runtimeMean,
                      stddev |-> Sqrtl(RatDiv(acc.runtimeDiffSum,
                                              RatInt(VarianceDivisor(n))))],
        gasUsage |-> [mean |-> gasMean,
                      stddev |-> Sqrtl(RatDiv(acc.gasDiffSum,
                                              RatInt(VarianceDivisor(n))))],
        errored  |-> acc.errored ]

(***************************************************************************)
(* Initial state: the process was started with some command line           *)
(***************************************************************************)
Init ==
  /\ argv \in ArgLists
  /\ pc = "start"
  /\ setup = <<>>
  /\ code = <<>>
  /\ stack = <<>>
  /\ samples = 0
  /\ i = 0
  /\ values = <<>>
  /\ total = RunInfoDefault
  /\ elapsed = 0
  /\ value_empty = RunInfoDefault
  /\ value_code = RunInfoDefault
  /\ result = NoStats
  /\ out = <<>>
  /\ err = <<>>
  /\ exitCode = -1
  /\ fatal = "none"
  /\ threw = FALSE
  /\ stack0 = <<>>
  /\ calls = <<>>
  /\ nEmpty = 0
  /\ nCode = 0
  /\ nSetup = 0
  /\ overSince = 0

locals == << samples, i, values, total, elapsed, value_empty, value_code,
             calls, overSince >>
counts == << nEmpty, nCode, nSetup >>

\* the process is killed: nothing else changes
Kill(why) ==
  /\ pc' = "aborted"
  /\ fatal' = why

(***************************************************************************)
(* main                                                                    *)
(***************************************************************************)
\* lines 145-164: a wrong argument count prints the usage and returns 1
MainUsage ==
  /\ pc = "start"
  /\ Len(argv) + 1 # 2 /\ Len(argv) + 1 # 3
  /\ err' = Append(err, UsageText)
  /\ exitCode' = 1
  /\ pc' = "exited"
  /\ UNCHANGED << argv, setup, code, stack, locals, result, out, fatal, threw,
                  stack0, counts >>

\* lines 165-173: the header is printed and the arguments are picked
MainHeader ==
  /\ pc = "start"
  /\ Len(argv) + 1 = 2 \/ Len(argv) + 1 = 3
  /\ out' = Append(out, HeaderLine)
  /\ IF Len(argv) + 1 = 2
       THEN setup' = <<>> /\ code' = argv[1]
       ELSE setup' = argv[1] /\ code' = argv[2]
  /\ pc' = "prepare"
  /\ UNCHANGED << argv, stack, locals, result, err, exitCode, fatal, threw,
                  stack0, counts >>

\* lines 65-79 (called from line 140): prepare_stack(setup)
PrepareStack ==
  /\ pc = "prepare"
  /\ IF ~ToCellOk(setup)
       THEN /\ Kill("decode")
            /\ UNCHANGED << stack, stack0, nSetup, threw >>
       ELSE \/ \* the VM throws: catch (...) LOG(FATAL)
               /\ threw' = TRUE
               /\ IF CatchKills
                    THEN Kill("fault")
                    ELSE pc' = "avg_init" /\ fatal' = fatal
               /\ UNCHANGED << stack, stack0, nSetup >>
            \/ \E o \in VmOutcomes, s \in Stacks :
                 /\ nSetup' = nSetup + 1
                 /\ threw' = threw
                 /\ IF PrepareAccepts(Complement(o.res))
                      THEN /\ stack' = s
                           /\ stack0' = s
                           /\ pc' = "avg_init"
                           /\ fatal' = fatal
                      ELSE /\ Kill("check_ret")
                           /\ UNCHANGED << stack, stack0 >>
  /\ UNCHANGED << argv, setup, code, locals, result, out, err, exitCode,
                  nEmpty, nCode >>

(***************************************************************************)
(* averageRuntime                                                          *)
(***************************************************************************)
\* lines 102-106
AverageRuntimeInit ==
  /\ pc = "avg_init"
  /\ samples' = Samples
  /\ total' = RunInfoDefault
  /\ values' = <<>>
  /\ elapsed' = 0
  /\ i' = 0
  /\ pc' = "loop"
  /\ UNCHANGED << argv, setup, code, stack, value_empty, value_code, calls,
                  overSince, result, out, err, exitCode, fatal, threw, stack0,
                  counts >>

\* line 108: the baseline call
RunEmpty ==
  /\ pc = "loop"
  /\ LoopCond(i, samples)
  /\ \E r \in TimeRunVm(BaselineCommand), s \in Stacks :
       /\ calls' = << [command |-> BaselineCommand, stack |-> stack] >>
       /\ threw' = (threw \/ r.threw)
       /\ nEmpty' = IF r.ran THEN nEmpty + 1 ELSE nEmpty
       /\ IF r.kind = "return"
            THEN /\ value_empty' = r.value
                 /\ stack' = SnapshotAfterRun(stack, s)
                 /\ pc' = "empty_done"
                 /\ fatal' = fatal
            ELSE /\ Kill(r.kind)
                 /\ UNCHANGED << value_empty, stack >>
  /\ UNCHANGED << argv, setup, code, samples, i, values, total, elapsed,
                  value_code, overSince, result, out, err, exitCode, stack0,
                  nCode, nSetup >>

\* line 109: the measured call
RunCode ==
  /\ pc = "empty_done"
  /\ \E r \in TimeRunVm(code), s \in Stacks :
       /\ calls' = Append(calls, [command |-> code, stack |-> stack])
       /\ threw' = (threw \/ r.threw)
       /\ nCode' = IF r.ran THEN nCode + 1 ELSE nCode
       /\ IF r.kind = "return"
            THEN /\ value_code' = r.value
                 /\ stack' = SnapshotAfterRun(stack, s)
                 /\ pc' = "code_done"
                 /\ fatal' = fatal
            ELSE /\ Kill(r.kind)
                 /\ UNCHANGED << value_code, stack >>
  /\ UNCHANGED << argv, setup, code, samples, i, values, total, elapsed,
                  value_empty, overSince, result, out, err, exitCode, stack0,
                  nEmpty, nSetup >>

\* lines 110-113: the sample is computed, pushed and totalled
PushSample ==
  /\ pc = "code_done"
  /\ LET value == Differential(value_code, value_empty)
     IN  /\ values' = Append(values, value)
         /\ total' = PlusAssign(total, value)
  /\ pc' = "check"
  /\ UNCHANGED << argv, setup, code, stack, samples, i, elapsed, value_empty,
                  value_code, calls, overSince, result, out, err, exitCode,
                  fatal, threw, stack0, counts >>

\* lines 114-118 and the ++i of line 107: the timer is read; either the
\* loop is left early or the next iteration starts
CheckStop ==
  /\ pc = "check"
  /\ \E el \in ElapsedReadings :
       /\ el >= elapsed
       /\ elapsed' = el
       /\ overSince' = IF overSince = 0 /\ el > TimeBudget THEN i + 1 ELSE overSince
       /\ IF StopNow(el, i)
            THEN /\ samples' = StoppedSamples(i, samples)
                 /\ values' = Resize(values, samples')
                 /\ i' = i
                 /\ pc' = "aggregate"
            ELSE /\ i' = i + 1
                 /\ pc' = "loop"
                 /\ UNCHANGED << samples, values >>
  \* the locals of the loop body go out of scope
  /\ value_empty' = RunInfoDefault
  /\ value_code' = RunInfoDefault
  /\ calls' = <<>>
  /\ UNCHANGED << argv, setup, code, stack, total, result, out, err, exitCode,
                  fatal, threw, stack0, counts >>

\* line 107: the loop test fails, the loop ends at the target count
LoopExit ==
  /\ pc = "loop"
  /\ ~LoopCond(i, samples)
  /\ pc' = "aggregate"
  /\ UNCHANGED << argv, setup, code, stack, locals, result, out, err,
                  exitCode, fatal, threw, stack0, counts >>

\* lines 120-136: the statistics are computed and returned
Aggregate ==
  /\ pc = "aggregate"
  /\ result' = Aggregated(values, total, samples)
  /\ pc' = "report"
  /\ UNCHANGED << argv, setup, code, stack, locals, out, err, exitCode,
                  fatal, threw, stack0, counts >>

\* lines 175-177: the data line is printed and main returns 0
Report ==
  /\ pc = "report"
  /\ out' = Append(out, DataLine(code, result))
  /\ exitCode' = 0
  /\ pc' = "exited"
  /\ UNCHANGED << argv, setup, code, stack, locals, result, err, fatal, threw,
                  stack0, counts >>

Next ==
  \/ MainUsage
  \/ MainHeader
  \/ PrepareStack
  \/ AverageRuntimeInit
  \/ RunEmpty
  \/ RunCode
  \/ PushSample
  \/ CheckStop
  \/ LoopExit
  \/ Aggregate
  \/ Report

Spec == Init /\ [][Next]_vars

(***************************************************************************)
(* Properties                                                              *)
(***************************************************************************)
\* the loop of averageRuntime has been left in a run that was not killed
Aggregating ==
  \/ pc \in {"aggregate", "report"}
  \/ pc = "exited" /\ exitCode = 0

\* averageRuntime has returned its statistics
Returned ==
  \/ pc = "report"
  \/ pc = "exited" /\ exitCode = 0

\* the measured-code token of the command line
MeasuredToken == argv[Len(argv)]

SomeSampleErrored == \E k \in 1..Len(values) : values[k].vmReturnCode # 0

RECURSIVE SumRuntime(_, _)
SumRuntime(v, k) == IF k = 0 THEN 0 ELSE v[k].runtime + SumRuntime(v, k - 1)

RECURSIVE SumGas(_, _)
SumGas(v, k) == IF k = 0 THEN 0 ELSE v[k].gasUsage + SumGas(v, k - 1)

\* sum over the samples of (N * x - S)^2, which is N^2 * sum of (x - S/N)^2
RECURSIVE ScaledSquares(_, _, _, _)
ScaledSquares(xs, k, N, S) ==
  IF k = 0 THEN 0
  ELSE (N * xs[k] - S) * (N * xs[k] - S) + ScaledSquares(xs, k - 1, N, S)

Runtimes == [k \in 1..Len(values) |-> values[k].runtime]
Gases    == [k \in 1..Len(values) |-> values[k].gasUsage]

\* q is the mean of the N numbers xs
IsMean(q, xs, N, S) == q[2] > 0 /\ q[1] * N = q[2] * S

\* q is the population variance of the N numbers xs: q = sum (x - S/N)^2 / N
IsPopulationVariance(q, xs, N, S) ==
  q[2] > 0 /\ q[1] * N * N * N = q[2] * ScaledSquares(xs, Len(xs), N, S)

----------------------------------------------------------------------------
\* C1: whenever aggregation begins, at least MinSamples differential samples
\* are retained, whatever the timer read (also when the budget was exceeded
\* after the first iteration).
C1_FloorReached == Aggregating => Len(values) >= MinSamples

\* the loop stopped early at exactly the floor, the budget having been
\* exceeded at the end of iteration 1 already
C1_Witness ==
  pc = "aggregate" /\ overSince = 1 /\ Len(values) = MinSamples /\ elapsed > TimeBudget

\* C2: the number of retained samples and of loop passes never exceeds the
\* target count, and when no timer reading ever exceeded the budget the loop
\* ends with exactly the target count.
C2_TargetBound ==
  /\ Len(values) <= Samples
  /\ i <= Samples /\ nEmpty <= Samples /\ nCode <= Samples
  /\ Aggregating /\ overSince = 0 => Len(values) = Samples /\ samples = Samples

\* the loop ran to the target count without the budget ever being exceeded
C2_Witness ==
  pc = "aggregate" /\ overSince = 0 /\ Len(values) = Samples /\ i = Samples

\* C3: the errored flag returned is true exactly when some retained sample
\* has a nonzero completion code, and a sample's code is the measured run's.
C3_ErroredIffSomeSample ==
  /\ Returned => (result.errored <=> SomeSampleErrored)
  /\ pc = "check" => values[Len(values)].vmReturnCode = value_code.vmReturnCode

\* the flag is set although the last sample ended with code 0
C3_Witness ==
  /\ pc = "report" /\ result.errored
  /\ values[1].vmReturnCode # 0
  /\ values[Len(values)].vmReturnCode = 0

\* C4: when a decode failure kills the process, no baseline run and no
\* measured run has been made.
C4_DecodeBeforeAnyRun == fatal = "decode" => nEmpty = 0 /\ nCode = 0

\* C5: on both ways out of the loop the divisor is the number of retained
\* samples, the total is their sum, the mean is total / N and the squared
\* standard deviation is the population variance, for runtime and for gas.
C5_PopulationStatistics ==
  Returned =>
    LET N  == Len(values)
        Sr == SumRuntime(values, N)
        Sg == SumGas(values, N)
    IN  /\ N >= 1
        /\ samples = N
        /\ total.runtime = Sr
        /\ total.gasUsage = Sg
        /\ IsMean(result.runtime.mean, Runtimes, N, Sr)
        /\ IsMean(result.gasUsage.mean, Gases, N, Sg)
        /\ IsPopulationVariance(result.runtime.stddev.sqrtOf, Runtimes, N, Sr)
        /\ IsPopulationVariance(result.gasUsage.stddev.sqrtOf, Gases, N, Sg)

\* statistics of an early stop, of samples that are not all alike
C5_Witness ==
  /\ pc = "report" /\ Len(values) < Samples
  /\ result.runtime.stddev.sqrtOf[1] > 0
  /\ result.gasUsage.stddev.sqrtOf[1] > 0
  /\ result.runtime.mean[1] # 0

\* C6 as amended: a nonzero completion code of a baseline or measured run
\* never kills the process and never stops sampling: only the stopping rule
\* ends the loop and the data line carries the error flag.  Only the setup
\* run's code can kill (CHECK(ret == 0) in prepare_stack).
C6_SampleCodesAbsorbed ==
  /\ fatal = "check_ret" => nSetup = 1 /\ nEmpty = 0 /\ nCode = 0 /\ samples = 0
  /\ Aggregating /\ SomeSampleErrored =>
       /\ Len(values) >= MinSamples
       /\ overSince = 0 => Len(values) = Samples
  /\ pc = "exited" /\ exitCode = 0 /\ SomeSampleErrored =>
       Len(out) = 2 /\ out[2].error = 1

\* a run with erroring samples went to the target count and was reported
C6_Witness ==
  /\ pc = "exited" /\ exitCode = 0
  /\ \A k \in 1..Len(values) : values[k].vmReturnCode # 0
  /\ Len(values) = Samples
  /\ Len(out) = 2 /\ out[2].error = 1

\* C6 as stated: no run's nonzero completion code, the setup run's
\* included, ever kills the process.
C6_NoCodeEverKills == C6_SampleCodesAbsorbed /\ fatal # "check_ret"

\* C7: once a VM run has thrown the process is dead at that call: nothing
\* runs after it, no sample is recorded for it and no data line is written.
C7_FaultKills ==
  threw =>
    /\ pc = "aborted" /\ fatal = "fault"
    /\ ~ENABLED Next
    /\ Len(values) = nCode
    /\ Len(out) <= 1
    /\ exitCode = -1

\* a measured run threw in the second iteration
C7_Witness ==
  threw /\ pc = "aborted" /\ nEmpty = 2 /\ nCode = 1 /\ Len(values) = 1 /\ out = <<HeaderLine>>

\* the fields of a data line that are >= 0
MeanNonNegative(q) == q[1] >= 0
StddevNonNegative(sd) == sd.sqrtOf[1] >= 0

\* a completed run printed the header and one data line with the measured
\* token first and 0 or 1 last
OneHeaderOneLine ==
  /\ Len(out) = 2
  /\ out[1] = HeaderLine
  /\ out[2].opcode = MeasuredToken
  /\ out[2].error \in {0, 1}

\* C8 as amended: a completed run with one or two arguments prints the
\* header and one data line, measured token first, 0 or 1 last, and the two
\* standard deviations are non-negative (the two means may be negative).
C8_OutputShape ==
  pc = "exited" /\ exitCode = 0 =>
    /\ Len(argv) \in {1, 2}
    /\ OneHeaderOneLine
    /\ StddevNonNegative(out[2].runtimeStddev)
    /\ StddevNonNegative(out[2].gasStddev)

\* a completed run whose data line has a negative runtime mean
C8_Witness ==
  /\ pc = "exited" /\ exitCode = 0 /\ Len(argv) = 2
  /\ out[2].runtimeMean[1] < 0
  /\ out[2].runtimeStddev.sqrtOf[1] > 0
  /\ out[2].error = 1

\* C8 as stated: all four numeric fields are non-negative.
C8_AllFieldsNonNegative ==
  pc = "exited" /\ exitCode = 0 =>
    /\ OneHeaderOneLine
    /\ MeanNonNegative(out[2].runtimeMean)
    /\ StddevNonNegative(out[2].runtimeStddev)
    /\ MeanNonNegative(out[2].gasMean)
    /\ StddevNonNegative(out[2].gasStddev)

\* C9: every iteration makes exactly two VM runs, the baseline (empty) code
\* first and the measured code second, each on a copy of the snapshot, and
\* the snapshot stays what prepare_stack returned.
C9_PairedCalls ==
  /\ pc \in {"loop", "empty_done", "code_done", "check", "aggregate"} => stack = stack0
  /\ pc = "loop" => nEmpty = i /\ nCode = i
  /\ pc = "empty_done" =>
       /\ nEmpty = i + 1 /\ nCode = i
       /\ calls = << [command |-> <<>>, stack |-> stack0] >>
  /\ pc \in {"code_done", "check"} =>
       /\ nEmpty = i + 1 /\ nCode = i + 1
       /\ calls = << [command |-> <<>>, stack |-> stack0],
                     [command |-> MeasuredToken, stack |-> stack0] >>

\* the pair of calls of a later iteration, on a non-empty snapshot
C9_Witness ==
  pc = "check" /\ i = Samples - 1 /\ Len(calls) = 2 /\ stack = <<1>> /\ nCode = Samples

\* C10: the sample pushed is measured minus baseline for runtime and gas,
\* with the measured run's code; raw runtimes are never negative while the
\* differences are not clamped.
C10_DifferentialSample ==
  /\ pc \in {"empty_done", "code_done", "check"} => value_empty.runtime >= 0
  /\ pc \in {"code_done", "check"} => value_code.runtime >= 0
  /\ pc = "check" =>
       /\ Len(values) = i + 1
       /\ values[i + 1].runtime = value_code.runtime - value_empty.runtime
       /\ values[i + 1].gasUsage = value_code.gasUsage - value_empty.gasUsage
       /\ values[i + 1].vmReturnCode = value_code.vmReturnCode

\* a retained sample with negative runtime and negative gas
C10_Witness ==
  /\ pc = "check"
  /\ values[Len(values)].runtime < 0
  /\ values[Len(values)].gasUsage < 0
  /\ value_empty.vmReturnCode # 0 /\ values[Len(values)].vmReturnCode = 0

====
